---- MODULE Spec2Model ----
(***************************************************************************)
(* Model of navigator/orchestrator.py: the Navigator orchestration engine. *)
(*                                                                         *)
(* One engine instance is shared by the callers in Callers.  Every await   *)
(* of the source is a suspension point: an action of the model runs the    *)
(* code from one suspension point to the next, so the synchronous          *)
(* `finally` block (close_browser, line 88) is part of the action that     *)
(* resumes the coroutine for the last time.                                *)
(*                                                                         *)
(* Python strings are modelled as sequences of tokens: a character of a    *)
(* memory text is one token, a string literal of the source is one token.  *)
(* Python dicts are modelled as records carrying the set of keys present.  *)
(***************************************************************************)
EXTENDS Integers, Sequences, FiniteSets, TLC

VARIABLES
    pc,            \* per caller: where its coroutine is suspended
    op,            \* per caller: the engine method it invoked
    goal,          \* per caller: user_goal / the argument of the call
    pending,       \* per caller: the collaborator call it is suspended in
    trace,         \* per caller: call/return events of this invocation (history)
    detailed_plan, \* per caller: local variable of perform_web_goal (line 71)
    memories,      \* per caller: local variable of summarize_results (line 103)
    response,      \* per caller: local variable of summarize_results (line 128)
    raised,        \* per caller: the error a pipeline state raised (history)
    result,        \* per caller: what the invocation handed to its caller
    browser,       \* the Browser Session Manager's session: "open" or "closed"
    nav,           \* the Web Navigation Engine's live Navigation State
    started,       \* number of engine invocations started so far
    serialized,    \* whether the callers serialize their invocations
    closedUnder,   \* per caller: another invocation's CLEANUP ran while it was in flight
    returned,      \* per caller: the value its last collaborator call returned (history)
    injected,      \* the selenium_manager argument the engine was constructed with
    selenium_manager,   \* self.selenium_manager: the manager the engine holds
    navigator_manager,  \* the manager self.web_navigator was given
    created_managers,   \* the Browser Session Managers the engine itself constructed
    db_handles     \* the session handles the persistence-session factory has returned

vars == <<pc, op, goal, pending, trace, detailed_plan, memories, response, raised, result,
          browser, nav, started, serialized, closedUnder, returned, injected,
          selenium_manager, navigator_manager, created_managers, db_handles>>

\* what __init__ wires together
wiring == <<injected, selenium_manager, navigator_manager, created_managers>>

-----------------------------------------------------------------------------
(* Bounds of the model *)

\* total number of engine invocations the callers start
MaxInvocations == 3
\* longest result sequence the Semantic Memory Index returns in the model
MaxRecords == 3
\* captured API interactions the Web Navigation Engine accumulates
MaxApis == 1
\* how far the longest memory text exceeds the excerpt length
MaxOver == 1
\* persistence sessions the Web Navigation Engine opens
MaxSessions == 2

(* Program constants *)

\* text[:200], line 113
ExcerptLen == 200
\* search_memory(user_goal, top_k=10), line 103
SummaryTopK == 10
\* search_memory(query, top_k=5), line 141
ApiSearchTopK == 5

Callers == {"a", "b"}
Goals == {"find the pricing API"}
Plans == {"plan-1", "plan-2"}
\* errors a collaborator call may raise
Errors == {"TimeoutError", "NavigationError"}
CancelledError == "CancelledError"
CloseError == "WebDriverException"

-----------------------------------------------------------------------------
(* Python values *)

None == "None"
\* the {} default of m.get('metadata', {}), line 106
EmptyDict == [keys |-> {}]
NoCall == [fn |-> "none", args |-> <<>>]
NoRaise == [state |-> "none", error |-> None]
NoResult == [kind |-> "none", value |-> None]
Returned(v) == [kind |-> "returned", value |-> v]
Raised(e) == [kind |-> "raised", value |-> e]

Call(f) == [ev |-> "call", fn |-> f]
Ret(f) == [ev |-> "return", fn |-> f]
Exc(f) == [ev |-> "raise", fn |-> f]

InFlight(i) ==
    pc[i] \in {"planning", "executing", "searching", "generating", "api_searching", "coding"}

\* the selenium_manager arguments of __init__, line 15: absent, or a manager of the caller
ManagerArgs == {None, "injected-manager"}

\* SeleniumManager(headless=False), line 27
DefaultManager == [id |-> "default-manager", headless |-> FALSE]

\* self.selenium_manager, lines 26-29
ChooseManager(arg) == IF arg = None THEN DefaultManager.id ELSE arg

\* the managers __init__ constructs, lines 26-27
CreatedManagers(arg) == IF arg = None THEN {DefaultManager} ELSE {}

\* WebNavigator given a manager of its own instead of the engine's
NavigatorOwnManager(engine_manager) == "navigator-manager"

\* the manager handed to WebNavigator, lines 38-42
NavigatorManager(engine_manager) == engine_manager

\* the session of the manager at construction: a manager the engine has just created
\* has opened nothing, a manager of the caller may already hold an open session
InitialSessions(arg) == IF arg = None THEN {"closed"} ELSE {"closed", "open"}

\* _get_db_session_for_navigator, lines 44-47: SessionLocal() makes a new handle
get_db_session_for_navigator == [id |-> Len(db_handles) + 1]

InitNav == [current_url |-> None, page_content |-> "", captured_apis |-> <<>>]

Init ==
    /\ pc = [i \in Callers |-> "idle"]
    /\ op = [i \in Callers |-> "none"]
    /\ goal = [i \in Callers |-> None]
    /\ pending = [i \in Callers |-> NoCall]
    /\ trace = [i \in Callers |-> <<>>]
    /\ detailed_plan = [i \in Callers |-> None]
    /\ memories = [i \in Callers |-> <<>>]
    /\ response = [i \in Callers |-> EmptyDict]
    /\ raised = [i \in Callers |-> NoRaise]
    /\ result = [i \in Callers |-> NoResult]
    /\ injected \in ManagerArgs
    /\ selenium_manager = ChooseManager(injected)
    /\ created_managers = CreatedManagers(injected)
    /\ navigator_manager = NavigatorManager(selenium_manager)
    /\ db_handles = <<>>
    /\ browser \in InitialSessions(injected)
    /\ nav = InitNav
    /\ started = 0
    /\ serialized \in BOOLEAN
    /\ closedUnder = [i \in Callers |-> FALSE]
    /\ returned = [i \in Callers |-> None]

-----------------------------------------------------------------------------
(* Python dicts and strings *)

\* d.get(k, default)
Get(d, k, default) == IF k \in d.keys THEN d[k] ELSE default

\* s[:n]
Slice(s, n) == SubSeq(s, 1, IF Len(s) < n THEN Len(s) ELSE n)

Digits == <<"0", "1", "2", "3", "4", "5", "6", "7", "8", "9">>

\* the decimal digits an f-string renders an int as
RECURSIVE Str(_)
Str(n) == IF n < 10 THEN <<Digits[n + 1]>> ELSE Str(n \div 10) \o <<Digits[(n % 10) + 1]>>

-----------------------------------------------------------------------------
(* summarize_results: lines 105-126 *)

\* the predicate of the list comprehension, line 106
IsApiRequest(m) == Get(Get(m, "metadata", EmptyDict), "type", None) = "api_request"

\* api_memories, line 106
ApiMemories(mems) == SelectSeq(mems, IsApiRequest)

\* FormatLine with the slice one character too long
FormatLineLongSlice(i, api) ==
    Str(i + 1) \o <<". ">> \o Slice(Get(api, "text", <<>>), ExcerptLen + 1) \o <<"...\n">>

\* f"{i+1}. {api.get('text', '')[:200]}...\n", line 113 (i is enumerate's index, from 0)
FormatLine(i, api) ==
    Str(i + 1) \o <<". ">> \o Slice(Get(api, "text", <<>>), ExcerptLen) \o <<"...\n">>

\* the loop of lines 112-113 from index i on
RECURSIVE FormatFrom(_, _)
FormatFrom(i, api_memories) ==
    IF i >= Len(api_memories) THEN <<>>
    ELSE FormatLine(i, api_memories[i + 1]) \o FormatFrom(i + 1, api_memories)

\* FormatApiInfo without the `if api_memories` guard: the heading is always written
FormatApiInfoAlwaysHeading(api_memories) ==
    <<"APIs discovered:\n">> \o FormatFrom(0, api_memories)

\* api_info, lines 109-113
FormatApiInfo(api_memories) ==
    IF Len(api_memories) = 0 THEN <<>>
    ELSE <<"APIs discovered:\n">> \o FormatFrom(0, api_memories)

PromptHead == <<"You are Hermes-3, an expert AI assistant skilled at summarizing information. ",
                "Summarize what was learned while pursuing this web automation goal: '">>
PromptContext == <<"'.\\n\\n", "Context:\\n">>
PromptTail == <<"\\n",
                "Focus your summary on these key aspects:\\n",
                "1. What was the primary outcome or accomplishment related to the goal?\\n",
                "2. What specific API patterns, request structures, or key UI elements were discovered or interacted with?\\n",
                "3. What insights or learned patterns could be useful for future automation tasks related to this website or goal?\\n",
                "Keep the summary concise and informative.">>

\* prompt, lines 116-126
BuildPrompt(user_goal, api_info) ==
    PromptHead \o <<user_goal>> \o PromptContext \o api_info \o PromptTail

\* SummaryOf without the default: response.get('response')
SummaryOfNoDefault(resp) == Get(resp, "response", None)

\* response.get('response', 'No summary available.'), line 129
SummaryOf(resp) == Get(resp, "response", "No summary available.")

-----------------------------------------------------------------------------
(* Collaborators, at their interface *)

\* WebNavigator.close_browser(): releases the Browser Session Manager's session
close_browser == browser' = "closed"

\* what navigate_and_learn does to the session and the Navigation State while it runs
Navigated(capture) ==
    [current_url |-> "https://shop.example/pricing",
     page_content |-> "<html>pricing</html>",
     captured_apis |-> IF capture /\ Len(nav.captured_apis) < MaxApis
                       THEN Append(nav.captured_apis, "GET /api/pricing")
                       ELSE nav.captured_apis]

-----------------------------------------------------------------------------
(* perform_web_goal: lines 63-90 *)

\* Finally with the cleanup placed after the try body instead of in a finally block:
\* an exception in flight skips it
FinallyOnSuccessOnly(i, evs, exc, closeFails) ==
    IF exc = None
    THEN /\ close_browser
         /\ trace' = [trace EXCEPT ![i] = @ \o evs \o
                         <<Call("close_browser"),
                           IF closeFails THEN Exc("close_browser") ELSE Ret("close_browser")>>]
         /\ closedUnder' = [j \in Callers |->
                               IF j # i /\ InFlight(j) THEN TRUE ELSE closedUnder[j]]
         /\ result' = [result EXCEPT ![i] =
                          IF closeFails THEN Raised(CloseError) ELSE Returned(None)]
         /\ pc' = [pc EXCEPT ![i] = "done"]
         /\ pending' = [pending EXCEPT ![i] = NoCall]
    ELSE /\ trace' = [trace EXCEPT ![i] = @ \o evs]
         /\ result' = [result EXCEPT ![i] = Raised(exc)]
         /\ pc' = [pc EXCEPT ![i] = "done"]
         /\ pending' = [pending EXCEPT ![i] = NoCall]
         /\ UNCHANGED <<browser, closedUnder>>

\* Finally with the exception in flight swallowed after the cleanup: the caller is
\* told the goal completed
FinallySwallows(i, evs, exc, closeFails) ==
    /\ close_browser
    /\ trace' = [trace EXCEPT ![i] = @ \o evs \o
                    <<Call("close_browser"),
                      IF closeFails THEN Exc("close_browser") ELSE Ret("close_browser")>>]
    /\ closedUnder' = [j \in Callers |->
                          IF j # i /\ InFlight(j) THEN TRUE ELSE closedUnder[j]]
    /\ result' = [result EXCEPT ![i] = Returned(None)]
    /\ pc' = [pc EXCEPT ![i] = "done"]
    /\ pending' = [pending EXCEPT ![i] = NoCall]

\* the finally block, lines 86-88, and what the caller gets after it: evs are the
\* events that led here, exc the exception in flight (None when the try body
\* completed), closeFails whether close_browser raises
Finally(i, evs, exc, closeFails) ==
    /\ close_browser
    /\ trace' = [trace EXCEPT ![i] = @ \o evs \o
                    <<Call("close_browser"),
                      IF closeFails THEN Exc("close_browser") ELSE Ret("close_browser")>>]
    /\ closedUnder' = [j \in Callers |->
                          IF j # i /\ InFlight(j) THEN TRUE ELSE closedUnder[j]]
    /\ result' = [result EXCEPT ![i] =
                     IF closeFails THEN Raised(CloseError)
                     ELSE IF exc = None THEN Returned(None)
                     ELSE Raised(exc)]
    /\ pc' = [pc EXCEPT ![i] = "done"]
    /\ pending' = [pending EXCEPT ![i] = NoCall]

\* an exception leaves a frame of summarize_results called on its own: no handler
Propagate(i, evs, exc) ==
    /\ trace' = [trace EXCEPT ![i] = @ \o evs]
    /\ result' = [result EXCEPT ![i] = Raised(exc)]
    /\ pc' = [pc EXCEPT ![i] = "done"]
    /\ pending' = [pending EXCEPT ![i] = NoCall]
    /\ UNCHANGED <<browser, closedUnder>>

\* the pipeline state a suspended coroutine is in
StateOf(p) ==
    CASE p = "planning" -> "PLANNING"
      [] p = "executing" -> "EXECUTING"
      [] p \in {"searching", "generating"} -> "SUMMARIZING"
      [] p \in {"api_searching", "coding"} -> "ACCESSOR"
      [] OTHER -> "none"

\* Raise with the error leaving perform_web_goal without passing any handler
RaiseWithoutCleanup(i, exc, closeFails) ==
    /\ raised' = [raised EXCEPT ![i] = [state |-> StateOf(pc[i]), error |-> exc]]
    /\ Propagate(i, <<Exc(pending[i].fn)>>, exc)
    /\ UNCHANGED <<op, goal, detailed_plan, memories, response, nav, started, serialized,
                   wiring, db_handles, returned>>

\* the collaborator call at which the coroutine is suspended raises exc
Raise(i, exc, closeFails) ==
    /\ raised' = [raised EXCEPT ![i] = [state |-> StateOf(pc[i]), error |-> exc]]
    /\ IF op[i] = "perform_web_goal"
       THEN Finally(i, <<Exc(pending[i].fn)>>, exc, closeFails)
       ELSE Propagate(i, <<Exc(pending[i].fn)>>, exc)
    /\ UNCHANGED <<op, goal, detailed_plan, memories, response, nav, started, serialized,
                   wiring, db_handles, returned>>

\* MayStart of callers that do not wait for the invocation in flight
MayStartUnserialized(i) ==
    /\ pc[i] \in {"idle", "done"}
    /\ started < MaxInvocations

\* a caller may start an invocation
MayStart(i) ==
    /\ pc[i] \in {"idle", "done"}
    /\ started < MaxInvocations
    /\ serialized => \A j \in Callers \ {i} : ~InFlight(j)

\* Start with the Navigation State read once, at construction, instead of at the call
StartStaleSnapshot(i, user_goal) ==
    /\ MayStart(i)
    /\ op' = [op EXCEPT ![i] = "perform_web_goal"]
    /\ goal' = [goal EXCEPT ![i] = user_goal]
    /\ pending' = [pending EXCEPT ![i] =
                      [fn |-> "create_detailed_plan",
                       args |-> <<user_goal, InitNav.current_url, InitNav.page_content,
                                  InitNav.captured_apis>>]]
    /\ trace' = [trace EXCEPT ![i] = <<Call("create_detailed_plan")>>]
    /\ pc' = [pc EXCEPT ![i] = "planning"]
    /\ detailed_plan' = [detailed_plan EXCEPT ![i] = None]
    /\ memories' = [memories EXCEPT ![i] = <<>>]
    /\ response' = [response EXCEPT ![i] = EmptyDict]
    /\ raised' = [raised EXCEPT ![i] = NoRaise]
    /\ result' = [result EXCEPT ![i] = NoResult]
    /\ closedUnder' = [closedUnder EXCEPT ![i] = FALSE]
    /\ returned' = [returned EXCEPT ![i] = None]
    /\ started' = started + 1
    /\ UNCHANGED <<browser, nav, serialized,
                   wiring, db_handles>>

\* lines 63-76: snapshot the Navigation State and call the planner
Start(i, user_goal) ==
    /\ MayStart(i)
    /\ op' = [op EXCEPT ![i] = "perform_web_goal"]
    /\ goal' = [goal EXCEPT ![i] = user_goal]
    /\ pending' = [pending EXCEPT ![i] =
                      [fn |-> "create_detailed_plan",
                       args |-> <<user_goal, nav.current_url, nav.page_content,
                                  nav.captured_apis>>]]
    /\ trace' = [trace EXCEPT ![i] = <<Call("create_detailed_plan")>>]
    /\ pc' = [pc EXCEPT ![i] = "planning"]
    /\ detailed_plan' = [detailed_plan EXCEPT ![i] = None]
    /\ memories' = [memories EXCEPT ![i] = <<>>]
    /\ response' = [response EXCEPT ![i] = EmptyDict]
    /\ raised' = [raised EXCEPT ![i] = NoRaise]
    /\ result' = [result EXCEPT ![i] = NoResult]
    /\ closedUnder' = [closedUnder EXCEPT ![i] = FALSE]
    /\ returned' = [returned EXCEPT ![i] = None]
    /\ started' = started + 1
    /\ UNCHANGED <<browser, nav, serialized,
                   wiring, db_handles>>

\* PlannerReturns with steps 2 and 3 out of order: summarize before navigating
PlannerReturnsSkipsExecuting(i, plan) ==
    /\ pc[i] = "planning"
    /\ detailed_plan' = [detailed_plan EXCEPT ![i] = plan]
    /\ returned' = [returned EXCEPT ![i] = plan]
    /\ pending' = [pending EXCEPT ![i] =
                      [fn |-> "search_memory", args |-> <<goal[i], SummaryTopK>>]]
    /\ trace' = [trace EXCEPT ![i] =
                    @ \o <<Ret("create_detailed_plan"), Call("search_memory")>>]
    /\ pc' = [pc EXCEPT ![i] = "searching"]
    /\ UNCHANGED <<op, goal, memories, response, raised, result, browser, nav, started,
                   serialized, closedUnder,
                   wiring, db_handles>>

\* lines 71-80: the planner returns; call navigate_and_learn with its plan
PlannerReturns(i, plan) ==
    /\ pc[i] = "planning"
    /\ trace' = [trace EXCEPT ![i] =
                    @ \o <<Ret("create_detailed_plan"), Call("navigate_and_learn")>>]
    /\ pc' = [pc EXCEPT ![i] = "executing"]
    /\ detailed_plan' = [detailed_plan EXCEPT ![i] = plan]
    /\ returned' = [returned EXCEPT ![i] = plan]
    /\ pending' = [pending EXCEPT ![i] =
                      [fn |-> "navigate_and_learn", args |-> <<goal[i], plan>>]]
    /\ UNCHANGED <<op, goal, memories, response, raised, result, browser, nav, started,
                   serialized, closedUnder,
                   wiring, db_handles>>

\* PlannerRaises with the planner's error swallowed: navigation goes on without a plan
PlannerRaisesSwallowed(i, exc, closeFails) ==
    /\ pc[i] = "planning"
    /\ raised' = [raised EXCEPT ![i] = [state |-> "PLANNING", error |-> exc]]
    /\ pending' = [pending EXCEPT ![i] =
                      [fn |-> "navigate_and_learn", args |-> <<goal[i], None>>]]
    /\ trace' = [trace EXCEPT ![i] =
                    @ \o <<Exc("create_detailed_plan"), Call("navigate_and_learn")>>]
    /\ pc' = [pc EXCEPT ![i] = "executing"]
    /\ UNCHANGED <<op, goal, detailed_plan, memories, response, result, browser, nav,
                   started, serialized, closedUnder,
                   wiring, db_handles, returned>>

\* line 71: the planner raises
PlannerRaises(i, exc, closeFails) ==
    /\ pc[i] = "planning"
    /\ Raise(i, exc, closeFails)

\* navigate_and_learn drives the browser while perform_web_goal is suspended in it
NavigateStep(i, capture) ==
    /\ pc[i] = "executing"
    /\ browser' = "open"
    /\ nav' = Navigated(capture)
    /\ UNCHANGED <<pc, op, goal, pending, trace, detailed_plan, memories, response,
                   raised, result, started, serialized, closedUnder,
                   wiring, db_handles, returned>>

\* lines 80-83 and 103: navigate_and_learn returns; summarize_results searches the memory
NavigateReturns(i) ==
    /\ pc[i] = "executing"
    /\ trace' = [trace EXCEPT ![i] =
                    @ \o <<Ret("navigate_and_learn"), Call("search_memory")>>]
    /\ pc' = [pc EXCEPT ![i] = "searching"]
    /\ returned' = [returned EXCEPT ![i] = None]
    /\ pending' = [pending EXCEPT ![i] =
                      [fn |-> "search_memory", args |-> <<goal[i], SummaryTopK>>]]
    /\ UNCHANGED <<op, goal, detailed_plan, memories, response, raised, result,
                   browser, nav, started, serialized, closedUnder,
                   wiring, db_handles>>

\* line 80: navigate_and_learn raises
NavigateRaises(i, exc, closeFails) ==
    /\ pc[i] = "executing"
    /\ Raise(i, exc, closeFails)

-----------------------------------------------------------------------------
(* summarize_results: lines 92-129 *)

\* summarize_results called by a caller directly: line 103
CallSummarize(i, user_goal) ==
    /\ MayStart(i)
    /\ op' = [op EXCEPT ![i] = "summarize_results"]
    /\ goal' = [goal EXCEPT ![i] = user_goal]
    /\ pending' = [pending EXCEPT ![i] =
                      [fn |-> "search_memory", args |-> <<user_goal, SummaryTopK>>]]
    /\ trace' = [trace EXCEPT ![i] = <<Call("search_memory")>>]
    /\ pc' = [pc EXCEPT ![i] = "searching"]
    /\ detailed_plan' = [detailed_plan EXCEPT ![i] = None]
    /\ memories' = [memories EXCEPT ![i] = <<>>]
    /\ response' = [response EXCEPT ![i] = EmptyDict]
    /\ raised' = [raised EXCEPT ![i] = NoRaise]
    /\ result' = [result EXCEPT ![i] = NoResult]
    /\ closedUnder' = [closedUnder EXCEPT ![i] = FALSE]
    /\ returned' = [returned EXCEPT ![i] = None]
    /\ started' = started + 1
    /\ UNCHANGED <<browser, nav, serialized,
                   wiring, db_handles>>

\* lines 103-128: the search returns mems; build the prompt and call the Inference Client
SearchReturns(i, mems) ==
    /\ pc[i] = "searching"
    /\ trace' = [trace EXCEPT ![i] = @ \o <<Ret("search_memory"), Call("generate_text")>>]
    /\ pc' = [pc EXCEPT ![i] = "generating"]
    /\ memories' = [memories EXCEPT ![i] = mems]
    /\ returned' = [returned EXCEPT ![i] = mems]
    /\ pending' = [pending EXCEPT ![i] =
                      [fn |-> "generate_text",
                       args |-> <<BuildPrompt(goal[i], FormatApiInfo(ApiMemories(mems))),
                                  "general">>]]
    /\ UNCHANGED <<op, goal, detailed_plan, response, raised, result, browser, nav,
                   started, serialized, closedUnder,
                   wiring, db_handles>>

\* line 103: the search raises
SearchRaises(i, exc, closeFails) ==
    /\ pc[i] = "searching"
    /\ Raise(i, exc, closeFails)

\* lines 128-129, and lines 83-90 when called from perform_web_goal: the Inference
\* Client returns resp
GenerateReturns(i, resp, closeFails) ==
    /\ pc[i] = "generating"
    /\ IF op[i] = "perform_web_goal"
       THEN Finally(i, <<Ret("generate_text")>>, None, closeFails)
       ELSE /\ trace' = [trace EXCEPT ![i] = @ \o <<Ret("generate_text")>>]
            /\ result' = [result EXCEPT ![i] = Returned(SummaryOf(resp))]
            /\ pc' = [pc EXCEPT ![i] = "done"]
            /\ pending' = [pending EXCEPT ![i] = NoCall]
            /\ UNCHANGED <<browser, closedUnder>>
    /\ response' = [response EXCEPT ![i] = resp]
    /\ returned' = [returned EXCEPT ![i] = resp]
    /\ UNCHANGED <<op, goal, detailed_plan, memories, raised, nav, started, serialized,
                   wiring, db_handles>>

\* line 128: the Inference Client raises
GenerateRaises(i, exc, closeFails) ==
    /\ pc[i] = "generating"
    /\ Raise(i, exc, closeFails)

\* Cancel with the cleanup in an `except Exception` handler, which CancelledError
\* (a BaseException) does not enter
CancelBypassesCleanup(i, closeFails) ==
    /\ InFlight(i)
    /\ RaiseWithoutCleanup(i, CancelledError, closeFails)

\* the task is cancelled while suspended in a collaborator call: CancelledError is
\* raised at that await
Cancel(i, closeFails) ==
    /\ InFlight(i)
    /\ Raise(i, CancelledError, closeFails)

-----------------------------------------------------------------------------
(* Pass-through accessors: lines 131-153 *)

\* CallApiSearch with the top_k of summarize_results copied over
CallApiSearchTopTen(i, query) ==
    /\ MayStart(i)
    /\ op' = [op EXCEPT ![i] = "api_search"]
    /\ goal' = [goal EXCEPT ![i] = query]
    /\ pending' = [pending EXCEPT ![i] =
                      [fn |-> "search_memory", args |-> <<query, SummaryTopK>>]]
    /\ trace' = [trace EXCEPT ![i] = <<Call("search_memory")>>]
    /\ pc' = [pc EXCEPT ![i] = "api_searching"]
    /\ detailed_plan' = [detailed_plan EXCEPT ![i] = None]
    /\ memories' = [memories EXCEPT ![i] = <<>>]
    /\ response' = [response EXCEPT ![i] = EmptyDict]
    /\ raised' = [raised EXCEPT ![i] = NoRaise]
    /\ result' = [result EXCEPT ![i] = NoResult]
    /\ closedUnder' = [closedUnder EXCEPT ![i] = FALSE]
    /\ returned' = [returned EXCEPT ![i] = None]
    /\ started' = started + 1
    /\ UNCHANGED <<browser, nav, serialized, wiring, db_handles>>

\* api_search(query), line 141: call the Semantic Memory Index
CallApiSearch(i, query) ==
    /\ MayStart(i)
    /\ op' = [op EXCEPT ![i] = "api_search"]
    /\ goal' = [goal EXCEPT ![i] = query]
    /\ pending' = [pending EXCEPT ![i] =
                      [fn |-> "search_memory", args |-> <<query, ApiSearchTopK>>]]
    /\ trace' = [trace EXCEPT ![i] = <<Call("search_memory")>>]
    /\ pc' = [pc EXCEPT ![i] = "api_searching"]
    /\ detailed_plan' = [detailed_plan EXCEPT ![i] = None]
    /\ memories' = [memories EXCEPT ![i] = <<>>]
    /\ response' = [response EXCEPT ![i] = EmptyDict]
    /\ raised' = [raised EXCEPT ![i] = NoRaise]
    /\ result' = [result EXCEPT ![i] = NoResult]
    /\ closedUnder' = [closedUnder EXCEPT ![i] = FALSE]
    /\ returned' = [returned EXCEPT ![i] = None]
    /\ started' = started + 1
    /\ UNCHANGED <<browser, nav, serialized, wiring, db_handles>>

\* ApiSearchReturns with the cleanup of perform_web_goal copied into api_search
ApiSearchReturnsCloses(i, mems) ==
    /\ pc[i] = "api_searching"
    /\ returned' = [returned EXCEPT ![i] = mems]
    /\ result' = [result EXCEPT ![i] = Returned(mems)]
    /\ close_browser
    /\ trace' = [trace EXCEPT ![i] =
                    @ \o <<Ret("search_memory"), Call("close_browser"), Ret("close_browser")>>]
    /\ pc' = [pc EXCEPT ![i] = "done"]
    /\ pending' = [pending EXCEPT ![i] = NoCall]
    /\ UNCHANGED <<op, goal, detailed_plan, memories, response, raised, nav,
                   started, serialized, closedUnder, wiring, db_handles>>

\* line 141: the search returns mems, which api_search returns
ApiSearchReturns(i, mems) ==
    /\ pc[i] = "api_searching"
    /\ trace' = [trace EXCEPT ![i] = @ \o <<Ret("search_memory")>>]
    /\ pc' = [pc EXCEPT ![i] = "done"]
    /\ returned' = [returned EXCEPT ![i] = mems]
    /\ result' = [result EXCEPT ![i] = Returned(mems)]
    /\ pending' = [pending EXCEPT ![i] = NoCall]
    /\ UNCHANGED <<op, goal, detailed_plan, memories, response, raised, browser, nav,
                   started, serialized, closedUnder, wiring, db_handles>>

\* line 141: the search raises
ApiSearchRaises(i, exc) ==
    /\ pc[i] = "api_searching"
    /\ Raise(i, exc, FALSE)

\* generate_code_for_task(task_description), line 153: call the Code Assistant
CallGenerateCode(i, task_description) ==
    /\ MayStart(i)
    /\ op' = [op EXCEPT ![i] = "generate_code_for_task"]
    /\ goal' = [goal EXCEPT ![i] = task_description]
    /\ pending' = [pending EXCEPT ![i] =
                      [fn |-> "generate_code", args |-> <<task_description>>]]
    /\ trace' = [trace EXCEPT ![i] = <<Call("generate_code")>>]
    /\ pc' = [pc EXCEPT ![i] = "coding"]
    /\ detailed_plan' = [detailed_plan EXCEPT ![i] = None]
    /\ memories' = [memories EXCEPT ![i] = <<>>]
    /\ response' = [response EXCEPT ![i] = EmptyDict]
    /\ raised' = [raised EXCEPT ![i] = NoRaise]
    /\ result' = [result EXCEPT ![i] = NoResult]
    /\ closedUnder' = [closedUnder EXCEPT ![i] = FALSE]
    /\ returned' = [returned EXCEPT ![i] = None]
    /\ started' = started + 1
    /\ UNCHANGED <<browser, nav, serialized, wiring, db_handles>>

\* line 153: the Code Assistant returns code, which generate_code_for_task returns
CodeReturns(i, code) ==
    /\ pc[i] = "coding"
    /\ trace' = [trace EXCEPT ![i] = @ \o <<Ret("generate_code")>>]
    /\ pc' = [pc EXCEPT ![i] = "done"]
    /\ returned' = [returned EXCEPT ![i] = code]
    /\ result' = [result EXCEPT ![i] = Returned(code)]
    /\ pending' = [pending EXCEPT ![i] = NoCall]
    /\ UNCHANGED <<op, goal, detailed_plan, memories, response, raised, browser, nav,
                   started, serialized, closedUnder, wiring, db_handles>>

\* line 153: the Code Assistant raises
CodeRaises(i, exc) ==
    /\ pc[i] = "coding"
    /\ Raise(i, exc, FALSE)

\* navigate_and_learn opens a persistence session through the factory it was given
NavigatorOpensSession(i) ==
    /\ pc[i] = "executing"
    /\ Len(db_handles) < MaxSessions
    /\ db_handles' = Append(db_handles, get_db_session_for_navigator)
    /\ UNCHANGED <<pc, op, goal, pending, trace, detailed_plan, memories, response,
                   raised, result, browser, nav, started, serialized, closedUnder,
                   returned, wiring>>

-----------------------------------------------------------------------------
(* Inputs *)

Chars == <<"a", "b", "c", "d", "e">>

\* a text of n characters
Text(n) == [k \in 1..n |-> Chars[(k % 5) + 1]]

\* a Memory Record of the given type
Memory(text, type) ==
    [keys |-> {"text", "metadata"}, text |-> text,
     metadata |-> [keys |-> {"type"}, type |-> type]]

\* the lengths of the memory texts drawn: around the excerpt length
TextLens == {ExcerptLen - 1, ExcerptLen, ExcerptLen + MaxOver}

MemoryRecords ==
    {Memory(Text(n), "api_request") : n \in TextLens}
    \cup {Memory(Text(ExcerptLen + 1), "page_visit"),
          [keys |-> {"text", "metadata"}, text |-> Text(3), metadata |-> EmptyDict],
          [keys |-> {"text"}, text |-> Text(3)],
          [keys |-> {"metadata"}, metadata |-> [keys |-> {"type"}, type |-> "api_request"]]}

RECURSIVE SeqsUpTo(_, _)
SeqsUpTo(S, n) ==
    IF n = 0 THEN {<<>>}
    ELSE LET shorter == SeqsUpTo(S, n - 1)
         IN  shorter \cup {Append(s, x) : s \in shorter, x \in S}

\* what the Semantic Memory Index may return for top_k = 10
SearchResults == SeqsUpTo(MemoryRecords, IF MaxRecords < SummaryTopK THEN MaxRecords ELSE SummaryTopK)

\* the results drawn when the search is a step of the pipeline
PipelineResults ==
    {<<>>,
     <<Memory(Text(3), "api_request"), Memory(Text(3), "page_visit")>>}

Responses ==
    {[keys |-> {"response"}, response |-> "The pricing API is GET /api/pricing."],
     [keys |-> {"response"}, response |-> ""],
     [keys |-> {}]}

Queries == {"x", "pricing endpoints"}
TaskDescriptions == {"click the login button"}
Codes == {"driver.find_element(By.ID, 'login').click()", ""}

\* what the Semantic Memory Index may return for top_k = 5
ApiSearchResults ==
    SeqsUpTo({Memory(Text(3), "api_request"), Memory(Text(3), "page_visit")},
             IF MaxRecords < ApiSearchTopK THEN MaxRecords ELSE ApiSearchTopK)

\* the responses drawn when generate_text is a step of the pipeline, which only prints
\* the summary
PipelineResponses ==
    {[keys |-> {"response"}, response |-> "The pricing API is GET /api/pricing."]}

-----------------------------------------------------------------------------
(* Specifications *)

\* callers invoking perform_web_goal on one engine
Next ==
    \E i \in Callers :
        \/ \E g \in Goals : Start(i, g)
        \/ \E plan \in Plans : PlannerReturns(i, plan)
        \/ \E e \in Errors, cf \in BOOLEAN : PlannerRaises(i, e, cf)
        \/ \E capture \in BOOLEAN : NavigateStep(i, capture)
        \/ NavigateReturns(i)
        \/ \E e \in Errors, cf \in BOOLEAN : NavigateRaises(i, e, cf)
        \/ \E mems \in PipelineResults : SearchReturns(i, mems)
        \/ \E e \in Errors, cf \in BOOLEAN : SearchRaises(i, e, cf)
        \/ \E r \in PipelineResponses, cf \in BOOLEAN : GenerateReturns(i, r, cf)
        \/ \E e \in Errors, cf \in BOOLEAN : GenerateRaises(i, e, cf)
        \/ \E cf \in BOOLEAN : Cancel(i, cf)

Spec == Init /\ [][Next]_vars

\* one caller invoking summarize_results on its own
InitSum == Init /\ serialized

NextSum ==
    \E i \in {"a"} :
        \/ \E g \in Goals : CallSummarize(i, g)
        \/ \E mems \in SearchResults : SearchReturns(i, mems)
        \/ \E e \in Errors : SearchRaises(i, e, FALSE)
        \/ \E r \in Responses : GenerateReturns(i, r, FALSE)
        \/ \E e \in Errors : GenerateRaises(i, e, FALSE)
        \/ Cancel(i, FALSE)

SpecSum == InitSum /\ [][NextSum]_vars

\* one caller using every operation of the engine, one invocation at a time
InitEngine == Init /\ serialized

NextEngine ==
    \E i \in {"a"} :
        \/ \E g \in Goals : Start(i, g)
        \/ \E plan \in Plans : PlannerReturns(i, plan)
        \/ \E e \in Errors, cf \in BOOLEAN : PlannerRaises(i, e, cf)
        \/ \E capture \in BOOLEAN : NavigateStep(i, capture)
        \/ NavigatorOpensSession(i)
        \/ NavigateReturns(i)
        \/ \E e \in Errors, cf \in BOOLEAN : NavigateRaises(i, e, cf)
        \/ \E g \in Goals : CallSummarize(i, g)
        \/ \E mems \in PipelineResults : SearchReturns(i, mems)
        \/ \E e \in Errors, cf \in BOOLEAN : SearchRaises(i, e, cf)
        \/ \E r \in Responses, cf \in BOOLEAN : GenerateReturns(i, r, cf)
        \/ \E e \in Errors, cf \in BOOLEAN : GenerateRaises(i, e, cf)
        \/ \E q \in Queries : CallApiSearch(i, q)
        \/ \E mems \in ApiSearchResults : ApiSearchReturns(i, mems)
        \/ \E e \in Errors : ApiSearchRaises(i, e)
        \/ \E d \in TaskDescriptions : CallGenerateCode(i, d)
        \/ \E code \in Codes : CodeReturns(i, code)
        \/ \E e \in Errors : CodeRaises(i, e)
        \/ \E cf \in BOOLEAN : Cancel(i, cf)

SpecEngine == InitEngine /\ [][NextEngine]_vars

\* the collaborator call caller i is suspended in returns or raises
Completes(i) ==
    \/ \E plan \in Plans : PlannerReturns(i, plan)
    \/ \E e \in Errors, cf \in BOOLEAN : PlannerRaises(i, e, cf)
    \/ NavigateReturns(i)
    \/ \E e \in Errors, cf \in BOOLEAN : NavigateRaises(i, e, cf)
    \/ \E mems \in PipelineResults : SearchReturns(i, mems)
    \/ \E e \in Errors, cf \in BOOLEAN : SearchRaises(i, e, cf)
    \/ \E r \in Responses, cf \in BOOLEAN : GenerateReturns(i, r, cf)
    \/ \E e \in Errors, cf \in BOOLEAN : GenerateRaises(i, e, cf)
    \/ \E mems \in ApiSearchResults : ApiSearchReturns(i, mems)
    \/ \E e \in Errors : ApiSearchRaises(i, e)
    \/ \E code \in Codes : CodeReturns(i, code)
    \/ \E e \in Errors : CodeRaises(i, e)

\* the engine with collaborators that always answer: no call stays outstanding forever
\* (every answer moves the caller's pc, so pc is the subscript)
SpecLive == SpecEngine /\ \A i \in Callers : WF_pc(Completes(i))

-----------------------------------------------------------------------------
(* Properties of perform_web_goal, checked under Spec *)

IsGoal(i) == op[i] = "perform_web_goal"
Done(i) == pc[i] = "done"

\* how many times invocation i has called collaborator operation f
Calls(i, f) == Cardinality({k \in DOMAIN trace[i] : trace[i][k] = Call(f)})

\* C1: every perform_web_goal invocation that has ended, whichever state raised or
\* none, has called close_browser exactly once; an invocation still in flight has
\* not called it yet
C1_CleanupExactlyOnce ==
    \A i \in Callers :
        IsGoal(i) =>
            /\ Done(i) => Calls(i, "close_browser") = 1
            /\ InFlight(i) => Calls(i, "close_browser") = 0

\* an invocation whose EXECUTING state raised and one that completed, both closed once
C1_Witness ==
    /\ IsGoal("a") /\ Done("a") /\ raised["a"].state = "EXECUTING"
    /\ Calls("a", "close_browser") = 1
    /\ IsGoal("b") /\ Done("b") /\ raised["b"] = NoRaise
    /\ Calls("b", "close_browser") = 1

C3_FailFast ==
    \A i \in Callers :
        IsGoal(i) =>
            /\ raised[i].state = "PLANNING" =>
                  /\ Calls(i, "navigate_and_learn") = 0
                  /\ Calls(i, "search_memory") = 0
                  /\ Calls(i, "generate_text") = 0
                  /\ Calls(i, "close_browser") = 1
            /\ raised[i].state = "EXECUTING" =>
                  /\ Calls(i, "search_memory") = 0
                  /\ Calls(i, "generate_text") = 0
                  /\ Calls(i, "close_browser") = 1

\* one invocation failed in PLANNING and another in EXECUTING
C3_Witness ==
    /\ IsGoal("a") /\ Done("a") /\ raised["a"].state = "PLANNING"
    /\ raised["a"].error \in Errors
    /\ IsGoal("b") /\ Done("b") /\ raised["b"].state = "EXECUTING"
    /\ raised["b"].error \in Errors

\* C4: when a pipeline state raised, the caller gets that same error, and
\* close_browser was called before it got it
C4_SameErrorAfterCleanup ==
    \A i \in Callers :
        (IsGoal(i) /\ Done(i) /\ raised[i].state # "none") =>
            /\ result[i] = Raised(raised[i].error)
            /\ Calls(i, "close_browser") = 1

\* C5: when a pipeline state raised and close_browser raised as well, the caller
\* gets the pipeline state's error
C5_CleanupFailureDoesNotMask ==
    \A i \in Callers :
        (/\ IsGoal(i) /\ Done(i) /\ raised[i].state # "none"
         /\ \E k \in DOMAIN trace[i] : trace[i][k] = Exc("close_browser"))
            => result[i] = Raised(raised[i].error)

\* the order of the collaborator calls of perform_web_goal
PipelineOrder ==
    <<"create_detailed_plan", "navigate_and_learn", "search_memory", "generate_text">>

\* the calls of invocation i not yet returned or raised
Outstanding(i) ==
    Cardinality({k \in DOMAIN trace[i] : trace[i][k].ev = "call"})
    - Cardinality({k \in DOMAIN trace[i] : trace[i][k].ev # "call"})

\* C6: the collaborator calls of one invocation are made in the order planner,
\* navigate_and_learn, memory search, generate_text, close_browser; each is made only
\* when the one before it has returned, at most one is outstanding, none is made
\* twice, nothing but close_browser follows a call that raised, and close_browser
\* is the last call
C6_StrictSequence ==
    \A i \in Callers :
        IsGoal(i) =>
            LET t == trace[i] IN
            /\ Outstanding(i) \in {0, 1}
            /\ InFlight(i) <=> Outstanding(i) = 1
            /\ \A k \in DOMAIN t :
                  /\ t[k].ev = "call" <=> k % 2 = 1
                  /\ t[k].ev # "call" => t[k].fn = t[k - 1].fn
                  /\ (t[k].ev = "call" /\ t[k].fn # "close_browser") =>
                        /\ (k + 1) \div 2 <= Len(PipelineOrder)
                        /\ t[k].fn = PipelineOrder[(k + 1) \div 2]
                        /\ k > 1 => t[k - 1].ev = "return"
                  /\ (t[k].ev = "call" /\ t[k].fn = "close_browser") => k = Len(t) - 1

\* an invocation that went through all four states and closed the browser last
C6_Witness ==
    \E i \in Callers :
        /\ IsGoal(i) /\ Done(i) /\ raised[i] = NoRaise
        /\ Len(trace[i]) = 10
        /\ trace[i][9] = Call("close_browser")

\* what follows the first raise of invocation i in its trace is close_browser only
OnlyCleanupAfterRaise(i) ==
    \A k \in DOMAIN trace[i] :
        (trace[i][k].ev = "raise" /\ trace[i][k].fn # "close_browser") =>
            /\ Len(trace[i]) = k + 2
            /\ trace[i][k + 1] = Call("close_browser")

\* C7: an invocation cancelled while suspended in a collaborator call has ended with
\* close_browser called once, right after the cancelled call, and with no later
\* pipeline state run
C7_CancelStillCleansUp ==
    \A i \in Callers :
        (IsGoal(i) /\ raised[i].error = CancelledError) =>
            /\ Done(i)
            /\ result[i].kind = "raised"
            /\ Calls(i, "close_browser") = 1
            /\ OnlyCleanupAfterRaise(i)

\* one invocation cancelled in the planner, another in generate_text
C7_Witness ==
    /\ IsGoal("a") /\ raised["a"] = [state |-> "PLANNING", error |-> CancelledError]
    /\ trace["a"][2] = Exc("create_detailed_plan")
    /\ IsGoal("b") /\ raised["b"] = [state |-> "SUMMARIZING", error |-> CancelledError]
    /\ trace["b"][8] = Exc("generate_text")
    /\ result["b"] = Raised(CancelledError)

\* C8: with serialized callers no invocation ever has the browser closed under it by
\* another invocation's CLEANUP
C8_SerializedIsSafe ==
    serialized => \A i \in Callers : ~closedUnder[i]

\* without serialization: an invocation in EXECUTING whose browser session another
\* invocation's CLEANUP has just closed
C8_Witness ==
    /\ ~serialized
    /\ \E i, j \in Callers :
          /\ i # j
          /\ IsGoal(i) /\ Done(i) /\ Calls(i, "close_browser") = 1
          /\ IsGoal(j) /\ pc[j] = "executing" /\ closedUnder[j]
          /\ nav.current_url # None
          /\ browser = "closed"

-----------------------------------------------------------------------------
(* Properties of summarize_results, checked under SpecSum *)

\* the prompt handed to the Inference Client by the outstanding generate_text call
PromptOf(i) == pending[i].args[1]

\* the part of a prompt between the "Context:" label and the fixed instructions
ContextBlock(prompt) ==
    SubSeq(prompt, Len(PromptHead) + 1 + Len(PromptContext) + 1,
           Len(prompt) - Len(PromptTail))

\* the positions of the records whose metadata.type is "api_request"
ApiPositions(mems) ==
    {k \in DOMAIN mems :
        /\ "metadata" \in mems[k].keys
        /\ "type" \in mems[k].metadata.keys
        /\ mems[k].metadata.type = "api_request"}

\* the position in mems of its n-th api_request record
NthApi(mems, n) ==
    CHOOSE k \in ApiPositions(mems) :
        Cardinality({j \in ApiPositions(mems) : j <= k}) = n

\* the text of a record, empty when it has none
TextOf(m) == IF "text" \in m.keys THEN m.text ELSE <<>>

\* the positions in a context block where an excerpt line ends
LineEnds(block) == {k \in DOMAIN block : block[k] = "...\n"}

\* the n-th excerpt line of a context block, without its terminator
Line(block, n) ==
    LET end == CHOOSE k \in LineEnds(block) :
                   Cardinality({j \in LineEnds(block) : j <= k}) = n
        before == {j \in LineEnds(block) : j < end}
        start == IF before = {} THEN 2
                 ELSE (CHOOSE j \in before : \A x \in before : x <= j) + 1
    IN  SubSeq(block, start, end - 1)

\* C9: the context block of the prompt holds one numbered excerpt per api_request
\* record of the search result, numbered 1..N in result order, each the first 200
\* characters of the record's text (all of it when shorter); other records
\* contribute nothing
C9_OneExcerptPerApiRecord ==
    \A i \in Callers :
        pc[i] = "generating" =>
            LET mems == memories[i]
                block == ContextBlock(PromptOf(i))
                N == Cardinality(ApiPositions(mems))
            IN  /\ N = 0 => block = <<>>
                /\ N > 0 =>
                      /\ block[1] = "APIs discovered:\n"
                      /\ Cardinality(LineEnds(block)) = N
                      /\ block[Len(block)] = "...\n"
                      /\ \A n \in 1..N :
                            LET text == TextOf(mems[NthApi(mems, n)])
                                line == Line(block, n)
                                body == SubSeq(line, 3, Len(line))
                            IN  /\ Len(line) >= 2
                                /\ line[1] = ToString(n)
                                /\ line[2] = ". "
                                /\ Len(body) <= ExcerptLen
                                /\ Len(body) = IF Len(text) < ExcerptLen
                                               THEN Len(text) ELSE ExcerptLen
                                /\ body = SubSeq(text, 1, Len(body))

\* the search returned two api_request records, the second longer than 200
\* characters, around a record of another type
C9_Witness ==
    /\ op["a"] = "summarize_results" /\ pc["a"] = "generating"
    /\ Len(memories["a"]) = 3
    /\ ApiPositions(memories["a"]) = {1, 3}
    /\ Len(TextOf(memories["a"][1])) < ExcerptLen
    /\ Len(TextOf(memories["a"][3])) > ExcerptLen
    /\ Cardinality(LineEnds(ContextBlock(PromptOf("a")))) = 2

\* C10: when the search returned no api_request record, the context block is empty,
\* generate_text is called once, under the "general" role, and summarize_results
\* returns the response's text
C10_EmptyResultIsNotAnError ==
    \A i \in Callers :
        (/\ op[i] = "summarize_results"
         /\ Calls(i, "search_memory") = 1
         /\ \E k \in DOMAIN trace[i] : trace[i][k] = Ret("search_memory")
         /\ ApiPositions(memories[i]) = {}) =>
            /\ Calls(i, "generate_text") = 1
            /\ pc[i] = "generating" =>
                  /\ pending[i].fn = "generate_text"
                  /\ ContextBlock(PromptOf(i)) = <<>>
                  /\ pending[i].args[2] = "general"
            /\ (Done(i) /\ raised[i] = NoRaise) =>
                  /\ result[i].kind = "returned"
                  /\ "response" \in response[i].keys =>
                        result[i].value = response[i].response
            /\ (Done(i) /\ result[i].kind = "raised") =>
                  raised[i].state = "SUMMARIZING"

\* the search returned the empty sequence and summarize_results returned the text
C10_Witness ==
    /\ op["a"] = "summarize_results" /\ Done("a")
    /\ memories["a"] = <<>>
    /\ trace["a"] = <<Call("search_memory"), Ret("search_memory"),
                      Call("generate_text"), Ret("generate_text")>>
    /\ "response" \in response["a"].keys
    /\ result["a"] = Returned(response["a"].response)
    /\ result["a"].value # ""

\* C11: a summarize_results call whose collaborator calls completed returns a string:
\* the response's text when it has one, "No summary available." when it has no
\* response field; never None
C11_AlwaysReturnsText ==
    \A i \in Callers :
        (op[i] = "summarize_results" /\ Done(i) /\ raised[i] = NoRaise) =>
            /\ result[i].kind = "returned"
            /\ result[i].value # None
            /\ "response" \in response[i].keys => result[i].value = response[i].response
            /\ "response" \notin response[i].keys =>
                  result[i].value = "No summary available."

\* the Inference Client's response had no response field and the fallback came back
C11_Witness ==
    /\ op["a"] = "summarize_results" /\ Done("a") /\ raised["a"] = NoRaise
    /\ Calls("a", "generate_text") = 1
    /\ response["a"].keys = {}
    /\ result["a"] = Returned("No summary available.")

-----------------------------------------------------------------------------
(* Properties of the whole engine, checked under SpecEngine *)

IsAccessor(i) == op[i] \in {"api_search", "generate_code_for_task"}

\* C12: api_search makes one search_memory call, with its query and top_k = 5, and
\* returns what the index returned; generate_code_for_task makes one generate_code
\* call with its description and returns what the Code Assistant returned
C12_PassThrough ==
    \A i \in Callers :
        /\ op[i] = "api_search" =>
              /\ Calls(i, "search_memory") = 1
              /\ Len(trace[i]) <= 2
              /\ InFlight(i) =>
                    pending[i] = [fn |-> "search_memory", args |-> <<goal[i], 5>>]
              /\ (Done(i) /\ raised[i] = NoRaise) => result[i] = Returned(returned[i])
        /\ op[i] = "generate_code_for_task" =>
              /\ Calls(i, "generate_code") = 1
              /\ Len(trace[i]) <= 2
              /\ InFlight(i) =>
                    pending[i] = [fn |-> "generate_code", args |-> <<goal[i]>>]
              /\ (Done(i) /\ raised[i] = NoRaise) => result[i] = Returned(returned[i])

\* api_search("x") returned the two records the index returned, in their order
C12_Witness ==
    /\ op["a"] = "api_search" /\ Done("a") /\ goal["a"] = "x"
    /\ Len(returned["a"]) = 2
    /\ returned["a"][1] # returned["a"][2]
    /\ result["a"] = Returned(returned["a"])

\* caller i takes a step of an operation other than perform_web_goal
StepOutsideGoal(i) ==
    /\ <<pc[i], trace[i]>>' # <<pc[i], trace[i]>>
    /\ op'[i] \in {"api_search", "generate_code_for_task", "summarize_results"}

\* C13: a step of api_search, generate_code_for_task or summarize_results called on
\* its own leaves the browser session and the Navigation State as they are and calls
\* neither close_browser nor navigate_and_learn nor the planner; the session is
\* closed only by a step of perform_web_goal that calls close_browser
C13_OnlyCleanupCloses ==
    [][/\ \A i \in Callers :
             StepOutsideGoal(i) =>
                 /\ browser' = browser
                 /\ nav' = nav
                 /\ Calls(i, "close_browser")' = 0
                 /\ Calls(i, "navigate_and_learn")' = 0
                 /\ Calls(i, "create_detailed_plan")' = 0
       /\ (browser = "open" /\ browser' = "closed") =>
             \E i \in Callers :
                 /\ IsGoal(i)
                 /\ Calls(i, "close_browser") = 0
                 /\ Calls(i, "close_browser")' = 1]_vars

\* an api_search, the third invocation on the engine, has returned on a session that
\* is still open
C13_Witness ==
    /\ browser = "open"
    /\ started = 3
    /\ op["a"] = "api_search" /\ Done("a") /\ result["a"].kind = "returned"

\* C14: the step that enters PLANNING leaves the Navigation State as it is and calls
\* the planner with the caller's goal and the current_url, page_content and
\* captured_apis of that moment; the step that enters EXECUTING calls
\* navigate_and_learn with the caller's goal and the plan the planner has just returned
C14_SnapshotAndPlanPassedThrough ==
    [][\A i \in Callers :
          /\ (pc[i] # "planning" /\ pc'[i] = "planning") =>
                /\ nav' = nav
                /\ pending'[i] =
                      [fn |-> "create_detailed_plan",
                       args |-> <<goal'[i], nav.current_url, nav.page_content,
                                  nav.captured_apis>>]
          /\ (pc[i] = "planning" /\ pc'[i] = "executing") =>
                /\ returned'[i] \in Plans
                /\ goal'[i] = goal[i]
                /\ pending'[i] =
                      [fn |-> "navigate_and_learn", args |-> <<goal[i], returned'[i]>>]]_vars

\* a second invocation, planned on a Navigation State an earlier one left behind,
\* is in EXECUTING with the plan the planner returned
C14_Witness ==
    \E i \in Callers :
        /\ IsGoal(i) /\ pc[i] = "executing"
        /\ started >= 2
        /\ nav.current_url # None /\ Len(nav.captured_apis) >= 1
        /\ returned[i] = "plan-2"
        /\ pending[i].args = <<goal[i], "plan-2">>
        /\ \A j \in Callers \ {i} : Done(j) /\ IsGoal(j)

-----------------------------------------------------------------------------
(* Termination of perform_web_goal, checked under SpecLive *)

\* the events of an invocation that went through all four states
FullRun ==
    <<Call("create_detailed_plan"), Ret("create_detailed_plan"),
      Call("navigate_and_learn"), Ret("navigate_and_learn"),
      Call("search_memory"), Ret("search_memory"),
      Call("generate_text"), Ret("generate_text"),
      Call("close_browser"), Ret("close_browser")>>

\* what a finished perform_web_goal invocation of caller i gave its caller
AllOrError(i) ==
    IF IsGoal(i) /\ Done(i)
    THEN /\ result[i].kind \in {"returned", "raised"}
         /\ result[i].kind = "returned" =>
               /\ result[i].value = None
               /\ trace[i] = FullRun
               /\ raised[i] = NoRaise
         /\ result[i].kind = "raised" => trace[i] # FullRun
    ELSE TRUE

\* C15: when every collaborator call returns or raises, a perform_web_goal invocation
\* in flight ends, with CLEANUP run; it ends either returning None after all four
\* states completed or raising, never returning after only part of them
C15_TerminatesAllOrError ==
    /\ \A i \in Callers :
          (IsGoal(i) /\ InFlight(i)) ~>
              (IsGoal(i) /\ Done(i) /\ Calls(i, "close_browser") = 1)
    /\ [](\A i \in Callers : AllOrError(i))

\* an invocation has returned to its caller after all four states
C15_Witness ==
    /\ IsGoal("a") /\ Done("a")
    /\ result["a"] = Returned(None)
    /\ trace["a"] = FullRun

-----------------------------------------------------------------------------
(* The wiring made by __init__, checked under SpecEngine *)

\* the handles the factory has handed out
Handles == {db_handles[k] : k \in DOMAIN db_handles}

\* C16: the engine has one Browser Session Manager for its lifetime, the injected one
\* or else a single default non-headless one it created; the Web Navigation Engine
\* holds that same manager; no operation duplicates or replaces it; and each call of
\* the persistence-session factory gives a handle that did not exist before the call
C16_OneManagerFreshHandles ==
    /\ [](/\ navigator_manager = selenium_manager
          /\ IF injected = None
             THEN created_managers = {[id |-> selenium_manager, headless |-> FALSE]}
             ELSE selenium_manager = injected /\ created_managers = {}
          /\ Cardinality(Handles) = Len(db_handles))
    /\ [][/\ wiring' = wiring
          /\ db_handles' # db_handles =>
                /\ Len(db_handles') = Len(db_handles) + 1
                /\ SubSeq(db_handles', 1, Len(db_handles)) = db_handles
                /\ db_handles'[Len(db_handles')] \notin Handles]_vars

\* a perform_web_goal has finished on an engine that made its own manager, after the
\* navigator asked the factory for two handles
C16_Witness ==
    /\ injected = None
    /\ IsGoal("a") /\ Done("a")
    /\ Len(db_handles) = 2
    /\ db_handles[1] # db_handles[2]

====
